---- MODULE Spec2Model ----
(***************************************************************************)
(* Model of server.js: the matchmaking slot, the room lifecycle with its   *)
(* deadline timer, scoring, and the per-player item state machine.         *)
(*                                                                         *)
(* Every handler of server.js runs to completion on one thread, so each    *)
(* handler is one action.  Handlers are written as operators on a record G *)
(* holding the mutable globals of the module (waitingPlayer, the counters, *)
(* the rooms map, the room objects, each player's roomId) and the messages *)
(* written so far by the running handler; an action applies its handler to *)
(* the current globals and stores the result.                              *)
(***************************************************************************)
EXTENDS Integers, Sequences, FiniteSets, TLC

(* ----------------------------- bounds ---------------------------------- *)
\* The model is explored under three sets of bounds: one that gives room to
\* matchmaking and the room lifecycle (three players, two rooms), one that
\* gives room to the item game inside a room (two players, three items),
\* and a small one for progress under fairness (two players, no items).
LifeMaxPlayers == 3      \* connections accepted (playerSeq stops here)
LifeMaxRooms   == 2      \* rooms created (roomSeq stops here)
LifeMaxItems   == 1      \* items granted before grants stop
LifeMaxScore   == 1      \* accepted `found` events per player and room
LifeMaxClosing == 1      \* sockets that have left OPEN and await their 'close'
ItemMaxPlayers == 2
ItemMaxRooms   == 1
ItemMaxItems   == 2
ItemMaxScore   == 0
ItemMaxClosing == 1
LiveMaxPlayers == 2      \* the bounds under which progress is checked
LiveMaxRooms   == 2
LiveMaxItems   == 0
LiveMaxScore   == 1
LiveMaxClosing == 1
StartTime      == 100000 \* Date.now() when the server starts

(* ------------------------ program constants ---------------------------- *)
MATCH_DURATION_MS   == 60000
ITEM_COOLDOWN_MS    == 8000
ORB_DURATION_MS     == 3000
SMOKE_DURATION_MS   == 2000
ITEM_STAGE_INTERVAL == 5
INVENTORY_MAX       == 2
ITEM_POOL           == <<"orb", "smoke", "shield">>
ITEM_ENDGAME_MS     == 3000
TIMER_GRACE_MS      == 20

\* msg.stage as sent by a client: a number given in halves (7 is 3.5), or
\* a value that Number() does not turn into a finite number.
StageInput(nan, hs) ==
  {[finite |-> FALSE, halves |-> 0] : x \in nan} \cup
  {[finite |-> TRUE, halves |-> h] : h \in hs}

LifeBounds ==
  [players |-> LifeMaxPlayers, rooms |-> LifeMaxRooms, items |-> LifeMaxItems,
   score |-> LifeMaxScore, closing |-> LifeMaxClosing,
   stages |-> StageInput({"NaN"}, {-3})]
ItemBounds ==
  [players |-> ItemMaxPlayers, rooms |-> ItemMaxRooms, items |-> ItemMaxItems,
   score |-> ItemMaxScore, closing |-> ItemMaxClosing,
   stages |-> StageInput({}, {-3, 10, 20, 30})]
LiveBounds ==
  [players |-> LiveMaxPlayers, rooms |-> LiveMaxRooms, items |-> LiveMaxItems,
   score |-> LiveMaxScore, closing |-> LiveMaxClosing,
   stages |-> StageInput({"NaN"}, {})]

VARIABLES
  now,            \* Date.now()
  ws,             \* ws[p]: readyState of player p's socket
  waitingPlayer,  \* player id in the waiting slot, 0 for null
  roomSeq, playerSeq, itemSeq,
  rooms,          \* keys of the `rooms` Map
  heap,           \* room objects still referenced: by `rooms` or by a pending timer
  roomId,         \* roomId[p]: player.roomId, 0 for ''
  sent,           \* messages written by the last handler, in order
  ev              \* the event handled by the last step

vars == <<now, ws, waitingPlayer, roomSeq, playerSeq, itemSeq, rooms, heap,
          roomId, sent, ev>>

(* ----------------------------- helpers --------------------------------- *)
Max(a, b) == IF a >= b THEN a ELSE b
Min(a, b) == IF a <= b THEN a ELSE b

RECURSIVE SeqFilter(_, _)
\* Array.prototype.filter with the predicate (p) => p.id !== player.id
SeqFilter(s, drop) ==
  IF s = <<>> THEN <<>>
  ELSE IF Head(s) = drop THEN SeqFilter(Tail(s), drop)
       ELSE <<Head(s)>> \o SeqFilter(Tail(s), drop)

\* Array.prototype.findIndex with (x) => x.id === itemId; 0 stands for -1
FindIndex(inv, itemId) ==
  IF \E i \in 1..Len(inv) : inv[i].id = itemId
  THEN CHOOSE i \in 1..Len(inv) :
         /\ inv[i].id = itemId
         /\ \A j \in 1..(i-1) : inv[j].id # itemId
  ELSE 0

\* Array.prototype.splice(idx, 1)
Splice(inv, idx) == [i \in 1..(Len(inv)-1) |-> IF i < idx THEN inv[i] ELSE inv[i+1]]

\* room.players.find without the predicate: the first player of the room
FindOther_first(ps, player) == IF ps = <<>> THEN 0 ELSE ps[1]

\* room.players.find((p) => p.id !== player.id); 0 stands for undefined
FindOther(ps, player) ==
  IF \E i \in 1..Len(ps) : ps[i] # player
  THEN ps[CHOOSE i \in 1..Len(ps) :
            /\ ps[i] # player
            /\ \A j \in 1..(i-1) : ps[j] = player]
  ELSE 0

(* --------------------------- the globals ------------------------------- *)
Globals ==
  [ws |-> ws, waitingPlayer |-> waitingPlayer, roomSeq |-> roomSeq,
   itemSeq |-> itemSeq, rooms |-> rooms, heap |-> heap, roomId |-> roomId,
   sent |-> <<>>]

\* send(ws, msg): dropped unless the socket is OPEN
send(G, p, msg) ==
  IF G.ws[p] # "OPEN" THEN G
  ELSE [G EXCEPT !.sent = Append(@, [to |-> p, msg |-> msg])]

RECURSIVE sendEach(_, _, _)
sendEach(G, ps, msg) ==
  IF ps = <<>> THEN G
  ELSE sendEach(send(G, Head(ps), msg), Tail(ps), msg)

\* broadcast(room, msg): room.players.forEach((p) => send(p.ws, msg))
broadcast(G, r, msg) == sendEach(G, G.heap[r].players, msg)

\* detachFromWaiting leaving the slot as it is
detachFromWaiting_keep(G, p) == G

\* detachFromWaiting(ws)
detachFromWaiting(G, p) ==
  IF G.waitingPlayer # 0 /\ G.waitingPlayer = p
  THEN [G EXCEPT !.waitingPlayer = 0]
  ELSE G

\* closeRoom without `rooms.delete(room.id)`
closeRoom_noDelete(G, r, reason) ==
  IF r = 0 THEN G
  ELSE
    LET G1 == [G EXCEPT !.heap[r].timer =
                          IF @ = "pending" THEN "cleared" ELSE @]
    IN IF reason = "opponent_left"
       THEN sendEach([G1 EXCEPT !.heap[r].leftSent = TRUE],
                     G1.heap[r].players, [type |-> "opponent_left"])
       ELSE G1

\* closeRoom without `clearTimeout(room.timer)`
closeRoom_noClearTimeout(G, r, reason) ==
  IF r = 0 THEN G
  ELSE
    LET G2 == [G EXCEPT !.rooms = @ \ {r}]
    IN IF reason = "opponent_left"
       THEN sendEach([G2 EXCEPT !.heap[r].leftSent = TRUE],
                     G2.heap[r].players, [type |-> "opponent_left"])
       ELSE G2

\* closeRoom(room, reason); reason is "" when the argument is omitted
closeRoom(G, r, reason) ==
  IF r = 0 THEN G
  ELSE
    LET G1 == [G EXCEPT !.heap[r].timer =
                          IF @ = "pending" THEN "cleared" ELSE @]
        G2 == [G1 EXCEPT !.rooms = @ \ {r}]
    IN IF reason = "opponent_left"
       THEN sendEach([G2 EXCEPT !.heap[r].leftSent = TRUE],
                     G2.heap[r].players, [type |-> "opponent_left"])
       ELSE G2

InitialState ==
  [inventory |-> <<>>, nextGrantStage |-> ITEM_STAGE_INTERVAL,
   lastItemUsedAt |-> 0, lastItemUsedStage |-> 0, shieldOn |-> FALSE,
   stageReached |-> 1, orbUntil |-> 0]

\* beginMatch(p1, p2)
beginMatch(G, p1, p2) ==
  LET id   == G.roomSeq
      room == [id |-> id,
               players |-> <<p1, p2>>,
               scores |-> [k \in {p1, p2} |-> 0],
               states |-> [k \in {p1, p2} |-> InitialState],
               endAt |-> now + MATCH_DURATION_MS,
               timer |-> "pending",
               due |-> now + MATCH_DURATION_MS + TIMER_GRACE_MS,
               \* history, not read by any handler:
               created |-> <<p1, p2>>,   \* the arguments of beginMatch
               matchEnds |-> 0,          \* runs of the deadline callback
               leftSent |-> FALSE]       \* closed with 'opponent_left'
      G1 == [G EXCEPT !.roomSeq = @ + 1,
                      !.roomId = [q \in DOMAIN @ |->
                                    IF q \in {p1, p2} THEN id ELSE @[q]],
                      !.rooms = @ \cup {id},
                      !.heap = [k \in DOMAIN @ \cup {id} |->
                                  IF k = id THEN room ELSE @[k]]]
      start(p) == [type |-> "match_start", roomId |-> id, playerId |-> p,
                   scores |-> room.scores, endAt |-> room.endAt]
  IN send(send(G1, p1, start(p1)), p2, start(p2))

\* pairOrWait without `waitingPlayer = null`
pairOrWait_keepSlot(G, player) ==
  IF G.waitingPlayer = 0 \/ G.ws[G.waitingPlayer] # "OPEN"
  THEN send([G EXCEPT !.waitingPlayer = player], player, [type |-> "waiting"])
  ELSE beginMatch(G, G.waitingPlayer, player)

\* pairOrWait(player)
pairOrWait(G, player) ==
  IF G.waitingPlayer = 0 \/ G.ws[G.waitingPlayer] # "OPEN"
  THEN send([G EXCEPT !.waitingPlayer = player], player, [type |-> "waiting"])
  ELSE beginMatch([G EXCEPT !.waitingPlayer = 0], G.waitingPlayer, player)

\* getRoomByPlayer(player); 0 stands for null
getRoomByPlayer(G, player) ==
  IF G.roomId[player] = 0 THEN 0
  ELSE IF G.roomId[player] \in G.rooms THEN G.roomId[player] ELSE 0

\* handleFound without the `Date.now() >= room.endAt` test
handleFound_noDeadline(G, player) ==
  LET r == getRoomByPlayer(G, player) IN
  IF r = 0 THEN G
  ELSE
    LET old == G.heap[r].scores
        new == [k \in DOMAIN old \cup {player} |->
                  IF k = player
                  THEN (IF player \in DOMAIN old THEN old[player] ELSE 0) + 1
                  ELSE old[k]]
        G1  == [G EXCEPT !.heap[r].scores = new]
    IN broadcast(G1, r, [type |-> "score_update", scores |-> new])

\* handleFound(player)
handleFound(G, player) ==
  LET r == getRoomByPlayer(G, player) IN
  IF r = 0 THEN G
  ELSE IF now >= G.heap[r].endAt THEN G
  ELSE
    LET old == G.heap[r].scores
        new == [k \in DOMAIN old \cup {player} |->
                  IF k = player
                  THEN (IF player \in DOMAIN old THEN old[player] ELSE 0) + 1
                  ELSE old[k]]
        G1  == [G EXCEPT !.heap[r].scores = new]
    IN broadcast(G1, r, [type |-> "score_update", scores |-> new])

\* pickRandomItemType(): rnd is the sequence of values Math.floor(
\* Math.random() * ITEM_POOL.length) takes in this handler, k the draw number
pickRandomItemType(rnd, k) ==
  IF rnd = <<>> THEN ITEM_POOL[1]
  ELSE ITEM_POOL[rnd[((k - 1) % Len(rnd)) + 1] + 1]

RECURSIVE grantLoop_noCap(_, _, _, _)
\* the while loop without `st.inventory.length < INVENTORY_MAX`
grantLoop_noCap(st, seq, granted, rnd) ==
  IF st.stageReached >= st.nextGrantStage
  THEN grantLoop_noCap(
         [st EXCEPT !.inventory =
                      Append(@, [id |-> seq,
                                 type |-> pickRandomItemType(rnd, granted + 1)]),
                    !.nextGrantStage = @ + ITEM_STAGE_INTERVAL],
         seq + 1, granted + 1, rnd)
  ELSE [st |-> st, itemSeq |-> seq, granted |-> granted]

RECURSIVE grantLoop_keepWhenFull(_, _, _, _)
\* the while loop leaving the loop, nextGrantStage untouched, when the
\* inventory is full (the grant is kept for later)
grantLoop_keepWhenFull(st, seq, granted, rnd) ==
  IF st.stageReached >= st.nextGrantStage /\ Len(st.inventory) < INVENTORY_MAX
  THEN grantLoop_keepWhenFull(
         [st EXCEPT !.inventory =
                      Append(@, [id |-> seq,
                                 type |-> pickRandomItemType(rnd, granted + 1)]),
                    !.nextGrantStage = @ + ITEM_STAGE_INTERVAL],
         seq + 1, granted + 1, rnd)
  ELSE [st |-> st, itemSeq |-> seq, granted |-> granted]

RECURSIVE grantLoop(_, _, _, _)
\* the while loop of maybeGrantItems; the result holds the state, the next
\* item id and the number of items granted
grantLoop(st, seq, granted, rnd) ==
  IF st.stageReached >= st.nextGrantStage
  THEN LET add == Len(st.inventory) < INVENTORY_MAX
           st1 == IF add
                  THEN [st EXCEPT !.inventory =
                          Append(@, [id |-> seq,
                                     type |-> pickRandomItemType(rnd, granted + 1)])]
                  ELSE st
       IN grantLoop([st1 EXCEPT !.nextGrantStage = @ + ITEM_STAGE_INTERVAL],
                    IF add THEN seq + 1 ELSE seq,
                    IF add THEN granted + 1 ELSE granted,
                    rnd)
  ELSE [st |-> st, itemSeq |-> seq, granted |-> granted]

\* maybeGrantItems(room, player)
maybeGrantItems(G, r, player, rnd) ==
  IF player \notin DOMAIN G.heap[r].states THEN G
  ELSE
    LET L  == grantLoop(G.heap[r].states[player], G.itemSeq, 0, rnd)
        G1 == [G EXCEPT !.heap[r].states[player] = L.st,
                        !.itemSeq = L.itemSeq]
    IN send(G1, player, [type |-> "inventory_update",
                         items |-> L.st.inventory,
                         reason |-> IF L.granted > 0 THEN "grant" ELSE "sync"])

\* handleStageReached storing the reported stage without Math.max against
\* the stage reached so far
handleStageReached_noMax(G, player, stageNo, rnd) ==
  LET r == getRoomByPlayer(G, player) IN
  IF r = 0 THEN G
  ELSE IF player \notin DOMAIN G.heap[r].states THEN G
  ELSE IF ~stageNo.finite THEN G
  ELSE
    LET stageInt == Max(1, stageNo.halves \div 2)
        G1 == [G EXCEPT !.heap[r].states[player].stageReached = stageInt]
    IN maybeGrantItems(G1, r, player, rnd)

\* handleStageReached(player, stageNo)
handleStageReached(G, player, stageNo, rnd) ==
  LET r == getRoomByPlayer(G, player) IN
  IF r = 0 THEN G
  ELSE IF player \notin DOMAIN G.heap[r].states THEN G
  ELSE IF ~stageNo.finite THEN G
  ELSE
    LET stageInt == Max(1, stageNo.halves \div 2)
        G1 == [G EXCEPT !.heap[r].states[player].stageReached = Max(@, stageInt)]
    IN maybeGrantItems(G1, r, player, rnd)

\* the number of times handleStageReached(player, stageNo) calls Math.random()
randomDraws(G, player, stageNo) ==
  LET probe == handleStageReached(G, player, stageNo, <<0>>)
  IN probe.itemSeq - G.itemSeq

\* the gates of handleUseItem without `now - me.lastItemUsedAt <
\* ITEM_COOLDOWN_MS`
useItemGates_noCooldown(room, player) ==
  /\ ~(now >= room.endAt)
  /\ ~((room.endAt - now) < ITEM_ENDGAME_MS)
  /\ player \in DOMAIN room.states
  /\ ~(room.states[player].lastItemUsedStage = room.states[player].stageReached)

\* the gates of handleUseItem without `(room.endAt - now) < 3_000`
useItemGates_noEndgameGate(room, player) ==
  /\ ~(now >= room.endAt)
  /\ player \in DOMAIN room.states
  /\ ~(now - room.states[player].lastItemUsedAt < ITEM_COOLDOWN_MS)
  /\ ~(room.states[player].lastItemUsedStage = room.states[player].stageReached)

\* the gates of handleUseItem without `lastItemUsedStage === stageReached`
useItemGates_noStageGate(room, player) ==
  /\ ~(now >= room.endAt)
  /\ ~((room.endAt - now) < ITEM_ENDGAME_MS)
  /\ player \in DOMAIN room.states
  /\ ~(now - room.states[player].lastItemUsedAt < ITEM_COOLDOWN_MS)

\* the early returns of handleUseItem between the room lookup and the
\* inventory lookup: TRUE when none of them is taken
useItemGates(room, player) ==
  /\ ~(now >= room.endAt)
  /\ ~((room.endAt - now) < ITEM_ENDGAME_MS)
  /\ player \in DOMAIN room.states
  /\ ~(now - room.states[player].lastItemUsedAt < ITEM_COOLDOWN_MS)
  /\ ~(room.states[player].lastItemUsedStage = room.states[player].stageReached)

\* handleUseItem without `ts.shieldOn = false` in the smoke branch
handleUseItem_shieldStays(G, player, itemId) ==
  LET r == getRoomByPlayer(G, player) IN
  IF r = 0 THEN G
  ELSE IF ~useItemGates(G.heap[r], player) THEN G
  ELSE
    LET me == G.heap[r].states[player] IN
      LET idx == FindIndex(me.inventory, itemId) IN
      IF idx = 0 THEN G
      ELSE
        LET item == me.inventory[idx]
            me1  == [me EXCEPT !.inventory = Splice(@, idx),
                               !.lastItemUsedAt = now,
                               !.lastItemUsedStage = me.stageReached]
            G1   == [G EXCEPT !.heap[r].states[player] = me1]
            consume(H) ==
              send(H, player,
                   [type |-> "inventory_update",
                    items |-> H.heap[r].states[player].inventory,
                    reason |-> "consume"])
        IN
        IF item.type = "orb" THEN
          LET G2 == [G1 EXCEPT !.heap[r].states[player].orbUntil =
                                 now + ORB_DURATION_MS]
          IN consume(broadcast(G2, r,
                 [type |-> "item_applied", by |-> player, typeName |-> "orb",
                  effectUntil |-> now + ORB_DURATION_MS]))
        ELSE IF item.type = "smoke" THEN
          LET target == FindOther(G1.heap[r].players, player) IN
          IF target = 0 THEN G1
          ELSE IF target \in DOMAIN G1.heap[r].states
                  /\ G1.heap[r].states[target].shieldOn
          THEN
            LET G2 == G1
                G3 == broadcast(G2, r,
                        [type |-> "item_applied", by |-> player,
                         typeName |-> "smoke", targetId |-> target,
                         blocked |-> TRUE])
            IN consume(send(G3, target,
                        [type |-> "inventory_update",
                         items |-> G3.heap[r].states[target].inventory,
                         reason |-> "shield_consumed"]))
          ELSE consume(broadcast(G1, r,
                        [type |-> "item_applied", by |-> player,
                         typeName |-> "smoke", targetId |-> target,
                         effectUntil |-> now + SMOKE_DURATION_MS]))
        ELSE IF item.type = "shield" THEN
          LET G2 == [G1 EXCEPT !.heap[r].states[player].shieldOn = TRUE]
          IN consume(broadcast(G2, r,
                 [type |-> "item_applied", by |-> player,
                  typeName |-> "shield", targetId |-> player]))
        ELSE consume(G1)

\* handleUseItem(player, itemId)
handleUseItem(G, player, itemId) ==
  LET r == getRoomByPlayer(G, player) IN
  IF r = 0 THEN G
  ELSE IF ~useItemGates(G.heap[r], player) THEN G
  ELSE
    LET me == G.heap[r].states[player] IN
      LET idx == FindIndex(me.inventory, itemId) IN
      IF idx = 0 THEN G
      ELSE
        LET item == me.inventory[idx]
            me1  == [me EXCEPT !.inventory = Splice(@, idx),
                               !.lastItemUsedAt = now,
                               !.lastItemUsedStage = me.stageReached]
            G1   == [G EXCEPT !.heap[r].states[player] = me1]
            consume(H) ==
              send(H, player,
                   [type |-> "inventory_update",
                    items |-> H.heap[r].states[player].inventory,
                    reason |-> "consume"])
        IN
        IF item.type = "orb" THEN
          LET G2 == [G1 EXCEPT !.heap[r].states[player].orbUntil =
                                 now + ORB_DURATION_MS]
          IN consume(broadcast(G2, r,
                 [type |-> "item_applied", by |-> player, typeName |-> "orb",
                  effectUntil |-> now + ORB_DURATION_MS]))
        ELSE IF item.type = "smoke" THEN
          LET target == FindOther(G1.heap[r].players, player) IN
          IF target = 0 THEN G1
          ELSE IF target \in DOMAIN G1.heap[r].states
                  /\ G1.heap[r].states[target].shieldOn
          THEN
            LET G2 == [G1 EXCEPT !.heap[r].states[target].shieldOn = FALSE]
                G3 == broadcast(G2, r,
                        [type |-> "item_applied", by |-> player,
                         typeName |-> "smoke", targetId |-> target,
                         blocked |-> TRUE])
            IN consume(send(G3, target,
                        [type |-> "inventory_update",
                         items |-> G3.heap[r].states[target].inventory,
                         reason |-> "shield_consumed"]))
          ELSE consume(broadcast(G1, r,
                        [type |-> "item_applied", by |-> player,
                         typeName |-> "smoke", targetId |-> target,
                         effectUntil |-> now + SMOKE_DURATION_MS]))
        ELSE IF item.type = "shield" THEN
          LET G2 == [G1 EXCEPT !.heap[r].states[player].shieldOn = TRUE]
          IN consume(broadcast(G2, r,
                 [type |-> "item_applied", by |-> player,
                  typeName |-> "shield", targetId |-> player]))
        ELSE consume(G1)

\* no departure: the player stays in the room and the room in the map
leaveRoom_stay(G, r, player) == G

\* the departure followed by putting the player left behind in the waiting
\* slot
leaveRoom_requeue(G, r, player) ==
  LET G1 == [G EXCEPT !.heap[r].players = SeqFilter(@, player),
                      !.roomId[player] = 0]
  IN IF Len(G1.heap[r].players) = 0
     THEN closeRoom(G1, r, "")
     ELSE [closeRoom(G1, r, "opponent_left")
             EXCEPT !.waitingPlayer = G1.heap[r].players[1]]

\* the departure shared by handleRematch and the close handler:
\* room.players = room.players.filter(...); player.roomId = ''; closeRoom(...)
leaveRoom(G, r, player) ==
  LET G1 == [G EXCEPT !.heap[r].players = SeqFilter(@, player),
                      !.roomId[player] = 0]
  IN IF Len(G1.heap[r].players) = 0
     THEN closeRoom(G1, r, "")
     ELSE closeRoom(G1, r, "opponent_left")

\* handleRematch that re-queues the player without leaving the room
handleRematch_noLeave(G, player) == pairOrWait(G, player)

\* handleRematch(player)
handleRematch(G, player) ==
  LET r == getRoomByPlayer(G, player) IN
  pairOrWait(IF r # 0 THEN leaveRoom(G, r, player) ELSE G, player)

\* ws.on('close', ...)
onClose(G, player) ==
  LET G1 == detachFromWaiting(G, player)
      r  == getRoomByPlayer(G1, player)
  IN IF r = 0 THEN G1 ELSE leaveRoom(G1, r, player)

\* the deadline callback without the broadcast
onDeadline_silent(G, r) ==
  [G EXCEPT !.heap[r].timer = "fired", !.heap[r].matchEnds = @ + 1]

\* the deadline callback installed by beginMatch
onDeadline(G, r) ==
  broadcast([G EXCEPT !.heap[r].timer = "fired",
                      !.heap[r].matchEnds = @ + 1],
            r, [type |-> "match_end", scores |-> G.heap[r].scores,
                endAt |-> G.heap[r].endAt])

(* ------------------------------ actions -------------------------------- *)
\* room objects no longer referenced by the rooms map or a pending timer
\* are garbage
Reachable(G) ==
  {r \in DOMAIN G.heap : r \in G.rooms \/ G.heap[r].timer = "pending"}

WithinBounds(G, B) ==
  /\ G.roomSeq <= B.rooms + 1
  /\ G.itemSeq = itemSeq \/ itemSeq <= B.items
  /\ \A r \in DOMAIN G.heap : \A k \in DOMAIN G.heap[r].scores :
       G.heap[r].scores[k] <= B.score
  /\ Cardinality({p \in DOMAIN G.ws : G.ws[p] = "CLOSING"}) <= B.closing

\* store the globals a handler leaves behind
Commit(G, e, B) ==
  /\ WithinBounds(G, B)
  /\ ws' = G.ws
  /\ waitingPlayer' = G.waitingPlayer
  /\ roomSeq' = G.roomSeq
  /\ itemSeq' = G.itemSeq
  /\ rooms' = G.rooms
  /\ heap' = [r \in Reachable(G) |-> G.heap[r]]
  /\ roomId' = G.roomId
  /\ sent' = G.sent
  /\ ev' = e

Event(op, p, n) == [op |-> op, p |-> p, n |-> n]

Init ==
  /\ now = StartTime
  /\ ws = <<>>
  /\ waitingPlayer = 0
  /\ roomSeq = 1
  /\ playerSeq = 1
  /\ itemSeq = 1
  /\ rooms = {}
  /\ heap = <<>>
  /\ roomId = <<>>
  /\ sent = <<>>
  /\ ev = Event("init", 0, 0)

\* wss.on('connection', ...): a new player with a fresh id and an open socket
Connect(B) ==
  /\ playerSeq <= B.players
  /\ LET p == playerSeq IN
       /\ playerSeq' = playerSeq + 1
       /\ Commit(pairOrWait([Globals EXCEPT !.ws = Append(@, "OPEN"),
                                            !.roomId = Append(@, 0)], p),
                 Event("connect", p, 0), B)
  /\ UNCHANGED now

\* a message of type 'found' from player p
Found(p, B) ==
  /\ ws[p] = "OPEN"
  /\ Commit(handleFound(Globals, p), Event("found", p, 0), B)
  /\ UNCHANGED <<now, playerSeq>>

\* a message of type 'stage_reached' from player p
StageReached(p, B) ==
  /\ ws[p] = "OPEN"
  /\ \E stageNo \in B.stages :
     \E rnd \in [1..randomDraws(Globals, p, stageNo) -> 0..(Len(ITEM_POOL) - 1)] :
       Commit(handleStageReached(Globals, p, stageNo, rnd),
              Event(IF stageNo.finite THEN "stage_reached" ELSE "stage_nan",
                    p, stageNo.halves), B)
  /\ UNCHANGED <<now, playerSeq>>

\* a message of type 'use_item' from player p; msg.itemId is an id handed
\* out so far or one never handed out (0)
UseItem(p, B) ==
  /\ ws[p] = "OPEN"
  /\ \E itemId \in 0..(itemSeq - 1) :
       Commit(handleUseItem(Globals, p, itemId), Event("use_item", p, itemId), B)
  /\ UNCHANGED <<now, playerSeq>>

\* a message of type 'rematch' from player p
Rematch(p, B) ==
  /\ ws[p] = "OPEN"
  /\ Commit(handleRematch(Globals, p), Event("rematch", p, 0), B)
  /\ UNCHANGED <<now, playerSeq>>

\* player p's socket leaves the OPEN state; its 'close' event comes later
SocketClosing(p, B) ==
  /\ ws[p] = "OPEN"
  /\ Commit([Globals EXCEPT !.ws[p] = "CLOSING"], Event("closing", p, 0), B)
  /\ UNCHANGED <<now, playerSeq>>

\* the 'close' event of player p's socket
Close(p, B) ==
  /\ ws[p] \in {"OPEN", "CLOSING"}
  /\ Commit(onClose([Globals EXCEPT !.ws[p] = "CLOSED"], p),
            Event("close", p, 0), B)
  /\ UNCHANGED <<now, playerSeq>>

\* the deadline timer of room r runs its callback
Deadline(r, B) ==
  /\ heap[r].timer = "pending"
  /\ now >= heap[r].due
  /\ Commit(onDeadline(Globals, r), Event("deadline", 0, r), B)
  /\ UNCHANGED <<now, playerSeq>>

\* the instants at which a comparison against Date.now() changes its outcome
Thresholds ==
  UNION {{heap[r].endAt - ITEM_ENDGAME_MS + 1, heap[r].endAt, heap[r].due}
           \cup {heap[r].states[k].lastItemUsedAt + ITEM_COOLDOWN_MS :
                   k \in {j \in DOMAIN heap[r].states :
                            heap[r].states[j].lastItemUsedAt > 0}}
         : r \in DOMAIN heap}

\* time passes: the clock is sampled at the next instants that matter
Tick ==
  /\ \E t \in Thresholds : t > now /\ now' = t
  /\ sent' = <<>>
  /\ ev' = Event("tick", 0, 0)
  /\ UNCHANGED <<ws, waitingPlayer, roomSeq, playerSeq, itemSeq, rooms, heap,
                 roomId>>

NextLife ==
  \/ Connect(LifeBounds)
  \/ \E p \in DOMAIN ws : Found(p, LifeBounds)
  \/ \E p \in DOMAIN ws : StageReached(p, LifeBounds)
  \/ \E p \in DOMAIN ws : UseItem(p, LifeBounds)
  \/ \E p \in DOMAIN ws : Rematch(p, LifeBounds)
  \/ \E p \in DOMAIN ws : SocketClosing(p, LifeBounds)
  \/ \E p \in DOMAIN ws : Close(p, LifeBounds)
  \/ \E r \in DOMAIN heap : Deadline(r, LifeBounds)
  \/ Tick

NextItem ==
  \/ Connect(ItemBounds)
  \/ \E p \in DOMAIN ws : Found(p, ItemBounds)
  \/ \E p \in DOMAIN ws : StageReached(p, ItemBounds)
  \/ \E p \in DOMAIN ws : UseItem(p, ItemBounds)
  \/ \E p \in DOMAIN ws : Rematch(p, ItemBounds)
  \/ \E p \in DOMAIN ws : SocketClosing(p, ItemBounds)
  \/ \E p \in DOMAIN ws : Close(p, ItemBounds)
  \/ \E r \in DOMAIN heap : Deadline(r, ItemBounds)
  \/ Tick

NextLive ==
  \/ Connect(LiveBounds)
  \/ \E p \in DOMAIN ws : Found(p, LiveBounds)
  \/ \E p \in DOMAIN ws : StageReached(p, LiveBounds)
  \/ \E p \in DOMAIN ws : UseItem(p, LiveBounds)
  \/ \E p \in DOMAIN ws : Rematch(p, LiveBounds)
  \/ \E p \in DOMAIN ws : SocketClosing(p, LiveBounds)
  \/ \E p \in DOMAIN ws : Close(p, LiveBounds)
  \/ \E r \in DOMAIN heap : Deadline(r, LiveBounds)
  \/ Tick

\* the clock does not stop short of an instant that matters, and a timer
\* that is due and still pending runs its callback (setTimeout)
Fairness ==
  /\ WF_vars(Tick)
  /\ \A r \in 1..LiveMaxRooms :
       WF_vars(r \in DOMAIN heap /\ Deadline(r, LiveBounds))

Spec == Init /\ [][NextLife]_vars
SpecItem == Init /\ [][NextItem]_vars
SpecLive == Init /\ [][NextLive]_vars /\ Fairness

(* ------------------------- shared vocabulary --------------------------- *)
\* positions in a message log of the messages of one type written to player p
MsgsTo(log, p, type) ==
  {i \in 1..Len(log) : log[i].to = p /\ log[i].msg.type = type}

\* positions in a message log of the messages of one type, to anyone
MsgsOf(log, type) == {i \in 1..Len(log) : log[i].msg.type = type}

\* the step hands a player to pairOrWait: a new connection or a rematch
Arrival(p) == ev'.op \in {"connect", "rematch"} /\ ev'.p = p

\* the rooms map holds the room named by the player's roomId
Attached(p) == p \in DOMAIN roomId /\ roomId[p] # 0 /\ roomId[p] \in rooms

\* everything but the clock, the message log and the event label
data == <<ws, waitingPlayer, roomSeq, playerSeq, itemSeq, rooms, heap, roomId>>

(* ------------------------------- C1 ------------------------------------ *)
\* C1: FIFO pairing.  A player A who arrives (connect or rematch) while the
\* waiting slot is empty takes the slot and is sent `waiting`; the slot then
\* changes only at an arrival or a close; and when the next arrival is another
\* player B while A's socket is still OPEN, that step creates exactly one
\* room, with players A and B, sends A and B one `match_start` each, carrying
\* that room's id and the receiver's own player id, and leaves the slot empty.
C1_FIFOPairing ==
  [][ /\ \A a \in 1..playerSeq :
           (waitingPlayer = 0 /\ Arrival(a)) =>
             /\ waitingPlayer' = a
             /\ Cardinality(MsgsTo(sent', a, "waiting")) = 1
             /\ MsgsOf(sent', "match_start") = {}
             /\ roomSeq' = roomSeq
      /\ waitingPlayer' # waitingPlayer =>
           ev'.op \in {"connect", "rematch", "close"}
      /\ \A a \in DOMAIN ws : \A b \in 1..playerSeq :
           (waitingPlayer = a /\ ws[a] = "OPEN" /\ b # a /\ Arrival(b)) =>
             /\ roomSeq' = roomSeq + 1
             /\ rooms' \ rooms = {roomSeq}
             /\ heap'[roomSeq].players = <<a, b>>
             /\ waitingPlayer' = 0
             /\ \A q \in {a, b} :
                  /\ Cardinality(MsgsTo(sent', q, "match_start")) = 1
                  /\ \A i \in MsgsTo(sent', q, "match_start") :
                       /\ sent'[i].msg.roomId = roomSeq
                       /\ sent'[i].msg.playerId = q
    ]_vars

\* a second player has just arrived and been paired with the waiting one
C1_Witness ==
  /\ ev.op \in {"connect", "rematch"}
  /\ \E r \in rooms :
       /\ r = roomSeq - 1
       /\ Len(heap[r].players) = 2
       /\ heap[r].players[1] # heap[r].players[2]
       /\ heap[r].players[2] = ev.p
       /\ \A q \in {heap[r].players[1], heap[r].players[2]} :
            \E i \in MsgsTo(sent, q, "match_start") : sent[i].msg.roomId = r

(* ------------------------------- C2 ------------------------------------ *)
\* C2: every room that is created pairs two different players: beginMatch is
\* never called with the popped waiting player equal to the arriving player.
C2_DistinctPair ==
  \A r \in DOMAIN heap : heap[r].created[1] # heap[r].created[2]

(* ------------------------------- C3 ------------------------------------ *)
\* C3: the key set of every room's score map is exactly the set of the two
\* player ids the room was created with, and has two entries.
C3_ScoreKeys ==
  \A r \in DOMAIN heap :
    /\ DOMAIN heap[r].scores = {heap[r].created[1], heap[r].created[2]}
    /\ Cardinality(DOMAIN heap[r].scores) = 2

(* ------------------------------- C4 ------------------------------------ *)
\* the step handles a message of one of the given types from player p
Message(p, ops) == ev'.op \in ops /\ ev'.p = p

\* the messages a broadcast of msg to the players ps writes, given the sockets
RECURSIVE Broadcast(_, _, _)
Broadcast(ps, socks, msg) ==
  IF ps = <<>> THEN <<>>
  ELSE (IF socks[Head(ps)] = "OPEN" THEN <<[to |-> Head(ps), msg |-> msg]>>
        ELSE <<>>) \o Broadcast(Tail(ps), socks, msg)

\* C4: score monotonicity.  A `found` from a player whose room is in the
\* rooms map, handled at now < endAt, raises that player's score by exactly 1,
\* leaves every other score alone and broadcasts `score_update` with the new
\* score map; a `found` at now >= endAt, or from a player without a room in
\* the map, changes nothing and sends nothing.  No step lowers a score, only
\* a `found` step changes one, and none changes once now >= endAt.
C4_ScoreMonotone ==
  [][ /\ \A p \in DOMAIN ws :
           Message(p, {"found"}) =>
             IF Attached(p) /\ now < heap[roomId[p]].endAt
             THEN LET r == roomId[p] IN
                  /\ r \in DOMAIN heap'
                  /\ DOMAIN heap'[r].scores = DOMAIN heap[r].scores
                  /\ heap'[r].scores[p] = heap[r].scores[p] + 1
                  /\ \A k \in DOMAIN heap[r].scores \ {p} :
                       heap'[r].scores[k] = heap[r].scores[k]
                  /\ sent' = Broadcast(heap[r].players, ws,
                               [type |-> "score_update",
                                scores |-> heap'[r].scores])
                  /\ MsgsTo(sent', p, "score_update") # {}
             ELSE data' = data /\ sent' = <<>>
      /\ \A r \in DOMAIN heap \cap DOMAIN heap' :
           /\ \A k \in DOMAIN heap[r].scores :
                /\ k \in DOMAIN heap'[r].scores
                /\ heap'[r].scores[k] >= heap[r].scores[k]
           /\ heap'[r].scores # heap[r].scores =>
                ev'.op = "found" /\ now < heap[r].endAt
    ]_vars

\* a `found` has just been turned down because the deadline has passed, in a
\* room where an earlier `found` of the same player was counted
C4_Witness ==
  /\ ev.op = "found"
  /\ sent = <<>>
  /\ Attached(ev.p)
  /\ now >= heap[roomId[ev.p]].endAt
  /\ heap[roomId[ev.p]].scores[ev.p] = 1

(* ------------------------------- C5 ------------------------------------ *)
\* the player's roomId names a room that is no longer in the rooms map
Orphan(p) == roomId[p] # 0 /\ roomId[p] \notin rooms

\* C5: departure.  When a player of a room in the rooms map disconnects, the
\* room leaves the map, and the other player of a two-player room is sent
\* exactly one `opponent_left` if its socket is OPEN (nothing else is
\* sent).  A room id that left the map never returns, the remaining player's
\* roomId keeps naming it until that player rematches, closes or is paired
\* again, and every `found`, `stage_reached` or `use_item` of a player
\* whose room is not in the map changes nothing and sends nothing.
C5_Departure ==
  [][ /\ \A p \in DOMAIN ws :
           (Message(p, {"close"}) /\ Attached(p)) =>
             LET r == roomId[p]
                 others == SeqFilter(heap[r].players, p)
             IN /\ r \notin rooms'
                /\ r \notin DOMAIN heap'
                /\ sent' = Broadcast(others, ws, [type |-> "opponent_left"])
                /\ Len(others) <= 1
                /\ \A i \in 1..Len(others) :
                     /\ roomId'[others[i]] = r
                     /\ ws[others[i]] = "OPEN" =>
                          Cardinality(MsgsTo(sent', others[i], "opponent_left")) = 1
      /\ \A r \in 1..(roomSeq - 1) : r \notin rooms => r \notin rooms'
      /\ \A p \in DOMAIN ws :
           roomId'[p] # roomId[p] =>
             \/ Message(p, {"rematch", "close"})
             \/ waitingPlayer = p /\ ev'.op \in {"connect", "rematch"}
      /\ \A p \in DOMAIN ws :
           (Message(p, {"found", "stage_reached", "stage_nan", "use_item"})
              /\ ~Attached(p)) =>
             data' = data /\ sent' = <<>>
    ]_vars

\* a player has just disconnected from a two-player room and the player left
\* behind, whose socket is open, has been told
C5_Witness ==
  /\ ev.op = "close"
  /\ Len(sent) = 1
  /\ sent[1].msg.type = "opponent_left"
  /\ sent[1].to # ev.p
  /\ Orphan(sent[1].to)
  /\ roomId[ev.p] = 0

(* ------------------------------- C6 ------------------------------------ *)
\* what pairOrWait is to do with an arriving player p, given the slot
SlotFree == waitingPlayer = 0 \/ ws[waitingPlayer] # "OPEN"

\* the rematch step of a player p whose room r is in the rooms map: p leaves
\* r, r leaves the map, and p takes the waiting slot (and is sent `waiting`)
\* when no live player waits, or else starts a new room with the waiting one
RematchRequeue(p, r) ==
  /\ r \notin rooms'
  /\ r \notin DOMAIN heap'
  /\ MsgsTo(sent', p, "opponent_left") = {}
  /\ IF SlotFree
     THEN /\ waitingPlayer' = p
          /\ roomId'[p] = 0
          /\ roomSeq' = roomSeq
          /\ rooms' = rooms \ {r}
          /\ Cardinality(MsgsTo(sent', p, "waiting")) = 1
     ELSE /\ waitingPlayer' = 0
          /\ roomSeq' = roomSeq + 1
          /\ rooms' = (rooms \ {r}) \cup {roomSeq}
          /\ heap'[roomSeq].players = <<waitingPlayer, p>>
          /\ roomId'[p] = roomSeq
          /\ roomId'[waitingPlayer] = roomSeq
          /\ Cardinality(MsgsTo(sent', p, "match_start")) = 1
          /\ MsgsTo(sent', p, "waiting") = {}

\* C6 as stated: on such a rematch every remaining opponent receives
\* `opponent_left`.
C6_RematchRequeue_Stated ==
  [][ \A p \in DOMAIN ws :
        (Message(p, {"rematch"}) /\ Attached(p)) =>
          /\ RematchRequeue(p, roomId[p])
          /\ \A q \in {heap[roomId[p]].players[i] :
                         i \in 1..Len(heap[roomId[p]].players)} \ {p} :
               Cardinality(MsgsTo(sent', q, "opponent_left")) = 1
    ]_vars

\* C6 (amended): rematch requeue.  When a player whose room is in the rooms
\* map (deadline fired or not) sends `rematch`, in that one step the player
\* leaves the room, the room leaves the map, a remaining opponent is sent
\* exactly one `opponent_left` if its socket is OPEN and none otherwise, and
\* the player either takes the waiting slot and is sent `waiting` (no live
\* player was waiting) or is placed in a new room with the waiting player.
C6_RematchRequeue ==
  [][ \A p \in DOMAIN ws :
        (Message(p, {"rematch"}) /\ Attached(p)) =>
          /\ RematchRequeue(p, roomId[p])
          /\ \A q \in {heap[roomId[p]].players[i] :
                         i \in 1..Len(heap[roomId[p]].players)} \ {p} :
               Cardinality(MsgsTo(sent', q, "opponent_left")) =
                 IF ws[q] = "OPEN" THEN 1 ELSE 0
    ]_vars

\* a player has just left a two-player room by rematch: the opponent has been
\* told and the player started a new room with the one who was waiting
C6_Witness ==
  /\ ev.op = "rematch"
  /\ MsgsOf(sent, "opponent_left") # {}
  /\ MsgsTo(sent, ev.p, "match_start") # {}
  /\ roomSeq = 3
  /\ rooms = {2}
  /\ heap[2].players[2] = ev.p
  /\ heap[2].players[1] # ev.p
  /\ waitingPlayer = 0

(* ------------------------------- C7 ------------------------------------ *)
\* C7: deadline handling.  `match_end` is written only by the deadline
\* callback of a room that is in the rooms map and whose timer is pending;
\* the callback runs at most once per room, leaves the room in the map and
\* its player list alone; a room that has left the map has no pending timer
\* (no room object outlives its removal), so no `match_end` follows its
\* removal or its `opponent_left`.
C7_Deadline ==
  /\ [][ /\ MsgsOf(sent', "match_end") # {} => ev'.op = "deadline"
         /\ ev'.op = "deadline" =>
              LET r == ev'.n IN
              /\ r \in rooms /\ r \in rooms'
              /\ heap[r].timer = "pending" /\ heap'[r].timer = "fired"
              /\ heap[r].matchEnds = 0 /\ heap'[r].matchEnds = 1
              /\ ~heap[r].leftSent
              /\ now >= heap[r].endAt
              /\ heap'[r].players = heap[r].players
              /\ sent' = Broadcast(heap[r].players, ws,
                           [type |-> "match_end", scores |-> heap[r].scores,
                            endAt |-> heap[r].endAt])
              /\ rooms' = rooms
       ]_vars
  /\ [](\A r \in DOMAIN heap :
          /\ r \in rooms
          /\ heap[r].matchEnds <= 1
          /\ ~heap[r].leftSent
          /\ heap[r].timer \in {"pending", "fired"})

\* the deadline of a room with two players has just fired and both were sent
\* `match_end`
C7_Witness ==
  /\ ev.op = "deadline"
  /\ ev.n \in rooms
  /\ Cardinality(MsgsOf(sent, "match_end")) = 2
  /\ heap[ev.n].timer = "fired"

(* ------------------------------- C8 ------------------------------------ *)
\* the PlayerMatchState of player p in the room its roomId names
StateOf(p) == heap[roomId[p]].states[p]

\* C8: every inventory of every room holds at most 2 items.
C8_InventoryCap ==
  \A r \in DOMAIN heap : \A k \in DOMAIN heap[r].states :
    Len(heap[r].states[k].inventory) <= 2

\* a player who never used an item has just reported stage 15 and was
\* granted an item by that report: it crossed the thresholds 10 and 15 at
\* least, and the inventory is full
C8_Witness ==
  /\ ev.op = "stage_reached" /\ ev.n = 30
  /\ Attached(ev.p)
  /\ StateOf(ev.p).lastItemUsedAt = 0
  /\ Len(StateOf(ev.p).inventory) = 2
  /\ StateOf(ev.p).nextGrantStage = 20
  /\ \E i \in 1..Len(sent) : sent[i].msg.reason = "grant"

(* ------------------------------- C9 ------------------------------------ *)
\* the step is a `stage_reached` with a finite value (ev'.n halves) from
\* player p, whose room is in the rooms map
StageStep(p) == ev'.op = "stage_reached" /\ ev'.p = p /\ Attached(p)

\* the grant thresholds (multiples of 5 from nextGrantStage on) that a
\* state reaches when its stage becomes s
Crossed(st, s) ==
  IF s >= st.nextGrantStage THEN (s - st.nextGrantStage) \div 5 + 1 ELSE 0

\* the reason of the single inventory_update the step sends to p
Reason(log, p) ==
  IF Cardinality(MsgsTo(log, p, "inventory_update")) = 1 /\ Len(log) = 1
  THEN log[1].msg.reason ELSE "none"

\* C9: grant loss.  A `stage_reached` that takes the stage to s advances
\* nextGrantStage by 5 for every threshold crossed and adds one item per
\* threshold only while the inventory has fewer than 2 items, the others
\* being lost; the reason sent is `grant` if an item was added and `sync`
\* otherwise; inventories grow in no other step.  From a fresh state, 5
\* gives one item and nextGrantStage 10 (grant); then, with no use, 10 gives
\* the second and 15 (grant); then 15 gives none and 20 (sync); so a later
\* report below 20 adds nothing, whatever was used in between.
C9_GrantLoss ==
  [][ /\ \A p \in DOMAIN ws :
           StageStep(p) =>
             LET st  == StateOf(p)
                 h   == ev'.n
                 st1 == heap'[roomId[p]].states[p]
                 s   == Max(st.stageReached, Max(1, h \div 2))
                 c   == Crossed(st, s)
                 n   == Min(2, Len(st.inventory) + c)
             IN /\ st1.stageReached = s
                /\ st1.nextGrantStage = st.nextGrantStage + 5 * c
                /\ Len(st1.inventory) = n
                /\ SubSeq(st1.inventory, 1, Len(st.inventory)) = st.inventory
                /\ Reason(sent', p) =
                     IF n > Len(st.inventory) THEN "grant" ELSE "sync"
                /\ s < st.nextGrantStage => st1.inventory = st.inventory
                /\ (st = InitialState /\ h = 10) =>
                     /\ Len(st1.inventory) = 1 /\ st1.nextGrantStage = 10
                     /\ Reason(sent', p) = "grant"
                /\ (st.stageReached = 5 /\ st.lastItemUsedAt = 0 /\ h = 20) =>
                     /\ Len(st1.inventory) = 2 /\ st1.nextGrantStage = 15
                     /\ Reason(sent', p) = "grant"
                /\ (st.stageReached = 10 /\ st.lastItemUsedAt = 0 /\ h = 30) =>
                     /\ Len(st1.inventory) = 2 /\ st1.nextGrantStage = 20
                     /\ Reason(sent', p) = "sync"
      /\ \A r \in DOMAIN heap \cap DOMAIN heap' :
           \A k \in DOMAIN heap[r].states :
             Len(heap'[r].states[k].inventory) > Len(heap[r].states[k].inventory)
               => ev'.op = "stage_reached" /\ ev'.p = k
    ]_vars

\* stage 15 has just been reported by a player who never used an item and
\* whose inventory was already full: nothing was granted, and the next grant
\* stage is 20
C9_Witness ==
  /\ ev.op = "stage_reached" /\ ev.n = 30
  /\ Attached(ev.p)
  /\ StateOf(ev.p).stageReached = 15
  /\ StateOf(ev.p).lastItemUsedAt = 0
  /\ Len(StateOf(ev.p).inventory) = 2
  /\ StateOf(ev.p).nextGrantStage = 20
  /\ Reason(sent, ev.p) = "sync"

(* ------------------------------- C10 ----------------------------------- *)
\* C10: reuse gate.  A `use_item` of a player whose stageReached equals
\* lastItemUsedStage is turned down (nothing changes, nothing is sent),
\* whatever the item id and the time; a use that takes an item out of the
\* inventory happens at a stage strictly above the stage of the previous
\* one, which it records; lastItemUsedStage changes in no other step; and a
\* player who has not used an item in the room has lastItemUsedStage 0 and
\* stageReached >= 1, so the gate never stops a first use.
C10_ReuseGate ==
  /\ [][ /\ \A p \in DOMAIN ws :
              (Message(p, {"use_item"}) /\ Attached(p)) =>
                LET st  == StateOf(p) IN
                /\ st.lastItemUsedStage = st.stageReached =>
                     data' = data /\ sent' = <<>>
                /\ data' # data =>
                     LET st1 == heap'[roomId[p]].states[p] IN
                     /\ st.stageReached > st.lastItemUsedStage
                     /\ st1.lastItemUsedStage = st.stageReached
                     /\ st1.stageReached = st.stageReached
                     /\ Len(st1.inventory) = Len(st.inventory) - 1
         /\ \A r \in DOMAIN heap \cap DOMAIN heap' :
              \A k \in DOMAIN heap[r].states :
                heap'[r].states[k].lastItemUsedStage
                    # heap[r].states[k].lastItemUsedStage
                  => /\ ev'.op = "use_item" /\ ev'.p = k
                     /\ Len(heap'[r].states[k].inventory)
                          < Len(heap[r].states[k].inventory)
       ]_vars
  /\ [](\A r \in DOMAIN heap : \A k \in DOMAIN heap[r].states :
          /\ heap[r].states[k].stageReached >= 1
          /\ heap[r].states[k].lastItemUsedStage <= heap[r].states[k].stageReached
          /\ heap[r].states[k].lastItemUsedAt = 0 =>
               heap[r].states[k].lastItemUsedStage = 0)

\* a `use_item` naming an item of the sender's inventory has just been turned
\* down although the cooldown has elapsed and the match has more than 3 s to
\* go: the sender's stage is the stage of its previous use
C10_Witness ==
  /\ ev.op = "use_item"
  /\ sent = <<>>
  /\ Attached(ev.p)
  /\ FindIndex(StateOf(ev.p).inventory, ev.n) # 0
  /\ StateOf(ev.p).lastItemUsedAt > 0
  /\ now - StateOf(ev.p).lastItemUsedAt >= 8000
  /\ heap[roomId[ev.p]].endAt - now >= 3000
  /\ StateOf(ev.p).lastItemUsedStage = StateOf(ev.p).stageReached

(* ------------------------------- C11 ----------------------------------- *)
\* the step is a `use_item` of player p that takes an item out of p's
\* inventory in the room p's roomId names
Used(p) ==
  /\ Message(p, {"use_item"})
  /\ Attached(p)
  /\ Len(heap'[roomId[p]].states[p].inventory) < Len(StateOf(p).inventory)

\* C11: time gates on item use.  A `use_item` takes an item only at a time
\* now with now < endAt and endAt - now >= 3000, and only when at least 8000
\* ms have passed since lastItemUsedAt; it then records now in
\* lastItemUsedAt, which no other step writes and which is never ahead of
\* the clock.  So lastItemUsedAt is the time of the player's previous use in
\* the room, and two uses of one player in one room are 8000 ms apart or more.
C11_TimeGates ==
  /\ [][ /\ \A p \in DOMAIN ws :
              Used(p) =>
                LET r   == roomId[p]
                    st  == StateOf(p)
                    st1 == heap'[roomId[p]].states[p]
                IN /\ now < heap[r].endAt
                   /\ heap[r].endAt - now >= 3000
                   /\ now - st.lastItemUsedAt >= 8000
                   /\ st1.lastItemUsedAt = now
         /\ \A r \in DOMAIN heap \cap DOMAIN heap' :
              \A k \in DOMAIN heap[r].states :
                heap'[r].states[k].lastItemUsedAt # heap[r].states[k].lastItemUsedAt
                  => k \in DOMAIN ws /\ Used(k) /\ roomId[k] = r
       ]_vars
  /\ [](\A r \in DOMAIN heap : \A k \in DOMAIN heap[r].states :
          heap[r].states[k].lastItemUsedAt <= now)

\* a player has just used the second of the two items handed out, both of
\* which were granted to that player: its second use in the room
C11_Witness ==
  /\ ev.op = "use_item"
  /\ sent # <<>>
  /\ Attached(ev.p)
  /\ itemSeq = 3
  /\ StateOf(ev.p).inventory = <<>>
  /\ StateOf(ev.p).lastItemUsedAt = now
  /\ \A k \in DOMAIN heap[roomId[ev.p]].states \ {ev.p} :
       heap[roomId[ev.p]].states[k].nextGrantStage = 5

(* ------------------------------- C12 ----------------------------------- *)
\* the item a `use_item` step of player p names, when p holds it
UsedItem(p) == StateOf(p).inventory[FindIndex(StateOf(p).inventory, ev'.n)]

\* the first player of p's room that is not p; 0 when there is none
Opponent(p) ==
  LET others == SeqFilter(heap[roomId[p]].players, p)
  IN IF others = <<>> THEN 0 ELSE others[1]

\* the `inventory_update` tagged `consume` that ends a use of player p
Consume(p) ==
  [to |-> p,
   msg |-> [type |-> "inventory_update",
            items |-> heap'[roomId[p]].states[p].inventory,
            reason |-> "consume"]]

\* C12: shield interaction.  When a player takes a smoke out of its inventory
\* and its room has an opponent: if the opponent's shieldOn is true, the
\* step sets it to false, broadcasts `item_applied` with blocked = true and
\* without effectUntil, and sends the opponent `inventory_update` with reason
\* `shield_consumed` and the opponent's inventory; if it is false, the step
\* broadcasts `item_applied` with effectUntil = now + 2000, changes no shield
\* flag and sends no `shield_consumed`.  (To broadcast or send is to write to
\* every addressee whose socket is OPEN; the actor's `consume` follows.)
C12_ShieldInteraction ==
  [][ \A p \in DOMAIN ws :
        (Used(p) /\ UsedItem(p).type = "smoke" /\ Opponent(p) # 0) =>
          LET r  == roomId[p]
              t  == Opponent(p)
              ts == heap[r].states[t]
          IN IF ts.shieldOn
             THEN /\ ~heap'[r].states[t].shieldOn
                  /\ sent' =
                       Broadcast(heap[r].players, ws,
                         [type |-> "item_applied", by |-> p,
                          typeName |-> "smoke", targetId |-> t,
                          blocked |-> TRUE])
                       \o (IF ws[t] = "OPEN"
                           THEN <<[to |-> t,
                                   msg |-> [type |-> "inventory_update",
                                            items |-> ts.inventory,
                                            reason |-> "shield_consumed"]]>>
                           ELSE <<>>)
                       \o <<Consume(p)>>
             ELSE /\ sent' =
                       Broadcast(heap[r].players, ws,
                         [type |-> "item_applied", by |-> p,
                          typeName |-> "smoke", targetId |-> t,
                          effectUntil |-> now + 2000])
                       \o <<Consume(p)>>
                  /\ \A k \in DOMAIN heap[r].states :
                       heap'[r].states[k].shieldOn = heap[r].states[k].shieldOn
                  /\ \A i \in 1..Len(sent') :
                       sent'[i].msg.type = "inventory_update" =>
                         sent'[i].msg.reason # "shield_consumed"
    ]_vars

\* a smoke has just been used against a shielded opponent with an open
\* socket: the opponent was told its shield is gone, and it is
C12_Witness ==
  /\ ev.op = "use_item"
  /\ Attached(ev.p)
  /\ Len(sent) = 4
  /\ sent[1].msg.type = "item_applied"
  /\ sent[1].msg.typeName = "smoke"
  /\ "blocked" \in DOMAIN sent[1].msg
  /\ sent[3].to # ev.p
  /\ sent[3].msg.reason = "shield_consumed"
  /\ ~heap[roomId[ev.p]].states[sent[3].to].shieldOn
  /\ sent[4].to = ev.p
  /\ sent[4].msg.reason = "consume"

(* ------------------------------- C13 ----------------------------------- *)
\* C13: every `use_item` step that takes an item out of the actor's
\* inventory ends with an `inventory_update` to the actor, with reason
\* `consume` and the inventory after the removal, whatever the item's type
\* and the room's state.
C13_ConsumeNotice ==
  [][ \A p \in DOMAIN ws :
        Used(p) => sent' # <<>> /\ sent'[Len(sent')] = Consume(p)
    ]_vars

(* ------------------------------- C14 ----------------------------------- *)
\* a `use_item` of player p naming item id is to be turned down: p has no
\* room in the rooms map, the match is over or in its last 3000 ms, the
\* cooldown has not elapsed, the stage is the stage of p's last use, or p
\* does not hold the item
Rejected(p, id) ==
  \/ ~Attached(p)
  \/ now >= heap[roomId[p]].endAt
  \/ heap[roomId[p]].endAt - now < 3000
  \/ now - StateOf(p).lastItemUsedAt < 8000
  \/ StateOf(p).lastItemUsedStage = StateOf(p).stageReached
  \/ \A i \in 1..Len(StateOf(p).inventory) : StateOf(p).inventory[i].id # id

\* C14: a `use_item` that is to be turned down leaves the whole state as it
\* was (inventories, lastItemUsedAt, lastItemUsedStage, shield flags,
\* scores, the waiting slot, the rooms map, and everything else) and writes
\* no message to anyone.
C14_SilentReject ==
  [][ \A p \in DOMAIN ws :
        (Message(p, {"use_item"}) /\ Rejected(p, ev'.n)) =>
          data' = data /\ sent' = <<>>
    ]_vars

\* a `use_item` naming an item the sender holds has just been turned down
\* in the last 3 seconds of the match, the cooldown and the stage allowing it
C14_Witness ==
  /\ ev.op = "use_item"
  /\ sent = <<>>
  /\ Attached(ev.p)
  /\ FindIndex(StateOf(ev.p).inventory, ev.n) # 0
  /\ now < heap[roomId[ev.p]].endAt
  /\ heap[roomId[ev.p]].endAt - now < 3000
  /\ now - StateOf(ev.p).lastItemUsedAt >= 8000
  /\ StateOf(ev.p).lastItemUsedStage # StateOf(ev.p).stageReached

(* ------------------------------- C15 ----------------------------------- *)
\* the step writes an `item_applied` carrying blocked = true
Blocked ==
  \E i \in 1..Len(sent') :
    /\ sent'[i].msg.type = "item_applied"
    /\ "blocked" \in DOMAIN sent'[i].msg

\* C15: shield persistence.  In a room that stays, a player's shieldOn goes
\* from true to false only in a step in which another player of that room
\* takes a smoke out of its inventory; it goes from false to true only in a
\* step in which the player itself takes a shield out of its inventory; and
\* a smoke is blocked exactly when the opponent's shieldOn was true, which
\* that step sets to false: every blocked smoke uses up one shield.
C15_ShieldPersistence ==
  [][ /\ \A r \in DOMAIN heap \cap DOMAIN heap' :
           \A k \in DOMAIN heap[r].states :
             /\ (heap[r].states[k].shieldOn /\ ~heap'[r].states[k].shieldOn) =>
                  \E p \in DOMAIN ws :
                    /\ p # k
                    /\ Used(p)
                    /\ roomId[p] = r
                    /\ UsedItem(p).type = "smoke"
             /\ (~heap[r].states[k].shieldOn /\ heap'[r].states[k].shieldOn) =>
                  /\ k \in DOMAIN ws
                  /\ Used(k)
                  /\ roomId[k] = r
                  /\ UsedItem(k).type = "shield"
      /\ \A p \in DOMAIN ws :
           (Used(p) /\ UsedItem(p).type = "smoke" /\ Opponent(p) # 0) =>
             LET t == Opponent(p) IN
             /\ Blocked <=> heap[roomId[p]].states[t].shieldOn
             /\ ~heap'[roomId[p]].states[t].shieldOn
      /\ Blocked =>
           \E p \in DOMAIN ws :
             Used(p) /\ UsedItem(p).type = "smoke" /\ Opponent(p) # 0
    ]_vars

\* a smoke has just taken the shield of a player who had put it up 8 seconds
\* ago or more: the shield outlived the time in between
C15_Witness ==
  /\ ev.op = "use_item"
  /\ Attached(ev.p)
  /\ \E i \in 1..Len(sent) :
       /\ sent[i].msg.type = "item_applied"
       /\ "blocked" \in DOMAIN sent[i].msg
       /\ sent[i].msg.targetId # ev.p
       /\ LET ts == heap[roomId[ev.p]].states[sent[i].msg.targetId] IN
            /\ ~ts.shieldOn
            /\ ts.lastItemUsedAt > 0
            /\ ts.lastItemUsedAt + 8000 <= now

(* ------------------------------- C16 ----------------------------------- *)
\* the players in the player list of room r
PlayersOf(h, r) == {h[r].players[i] : i \in 1..Len(h[r].players)}

\* player p was left behind by a departure and has not asked for a rematch
\* since: its roomId names a room that has left the rooms map, and it is not
\* in the waiting slot (a rematch of a player without a room in the map
\* leaves the stale roomId in place while the player waits)
LeftBehind(p) == Orphan(p) /\ waitingPlayer # p

\* C16: no automatic requeue.  The players a departure (close or rematch)
\* leaves in a room that is removed from the rooms map are put neither in
\* the waiting slot nor in a room by that step, and stay out of both, their
\* roomId untouched, in every later step but their own `rematch`: in
\* particular when another player arrives, who takes the slot or is paired
\* with the player waiting there, never with the one left behind.
C16_NoAutoRequeue ==
  /\ [](\A p \in DOMAIN ws :
          Orphan(p) => \A r \in rooms : p \notin PlayersOf(heap, r))
  /\ [][ /\ \A q \in DOMAIN ws :
              (Message(q, {"close", "rematch"}) /\ Attached(q)) =>
                \A p \in PlayersOf(heap, roomId[q]) \ {q} :
                  /\ roomId'[p] = roomId[q]
                  /\ roomId[q] \notin rooms'
                  /\ waitingPlayer' # p
                  /\ \A r \in rooms' : p \notin PlayersOf(heap', r)
         /\ \A p \in DOMAIN ws :
              (LeftBehind(p) /\ ~Message(p, {"rematch"})) =>
                /\ roomId'[p] = roomId[p]
                /\ roomId[p] \notin rooms'
                /\ waitingPlayer' # p
                /\ \A r \in rooms' : p \notin PlayersOf(heap', r)
         /\ \A p \in DOMAIN ws : \A b \in 1..playerSeq :
              (LeftBehind(p) /\ b # p /\ Arrival(b)) =>
                IF SlotFree
                THEN waitingPlayer' = b /\ rooms' \subseteq rooms
                ELSE /\ rooms' \ rooms = {roomSeq}
                     /\ heap'[roomSeq].players = <<waitingPlayer, b>>
       ]_vars

\* a third player has just connected while a player left behind by its
\* opponent has an open socket: the newcomer waits alone
C16_Witness ==
  /\ ev.op = "connect"
  /\ ev.p = 3
  /\ waitingPlayer = 3
  /\ rooms = {}
  /\ MsgsTo(sent, 3, "waiting") # {}
  /\ \E p \in DOMAIN ws : p # 3 /\ LeftBehind(p) /\ ws[p] = "OPEN"

(* ------------------------------- C17 ----------------------------------- *)
\* the rooms of the rooms map whose player list holds player p
RoomsOf(p) == {r \in rooms : p \in PlayersOf(heap, r)}

\* C17: every player is in the player list of at most one room of the rooms
\* map, and the player in the waiting slot is in the player list of none.
C17_OneRoom ==
  /\ \A p \in DOMAIN ws : Cardinality(RoomsOf(p)) <= 1
  /\ waitingPlayer # 0 => RoomsOf(waitingPlayer) = {}

\* a player has just left the second room by rematch and waits, while the
\* first room is still in the map with two other players
C17_Witness ==
  /\ ev.op = "rematch"
  /\ waitingPlayer = ev.p
  /\ roomSeq = 3
  /\ rooms = {1}
  /\ Cardinality(PlayersOf(heap, 1)) = 2
  /\ ev.p \notin PlayersOf(heap, 1)

(* ------------------------------- C18 ----------------------------------- *)
\* C18: stage bookkeeping.  In every PlayerMatchState nextGrantStage is a
\* multiple of 5, lies above stageReached and equals
\* 5 * (stageReached div 5 + 1); no step lowers stageReached or
\* nextGrantStage of a room that stays; and a `stage_reached` whose value,
\* rounded down, is not above the stage reached so far (lower, zero or
\* negative values included) leaves the state as it was and answers with one
\* `inventory_update` with reason `sync`.
C18_StageBookkeeping ==
  /\ [](\A r \in DOMAIN heap : \A k \in DOMAIN heap[r].states :
          LET st == heap[r].states[k] IN
          /\ st.nextGrantStage % 5 = 0
          /\ st.nextGrantStage > st.stageReached
          /\ st.nextGrantStage = 5 * (st.stageReached \div 5 + 1))
  /\ [][ /\ \A r \in DOMAIN heap \cap DOMAIN heap' :
              \A k \in DOMAIN heap[r].states :
                /\ heap'[r].states[k].stageReached >= heap[r].states[k].stageReached
                /\ heap'[r].states[k].nextGrantStage >= heap[r].states[k].nextGrantStage
         /\ \A p \in DOMAIN ws :
              (StageStep(p) /\ ev'.n \div 2 <= StateOf(p).stageReached) =>
                /\ heap'[roomId[p]].states[p] = StateOf(p)
                /\ Reason(sent', p) = "sync"
       ]_vars

\* a player at stage 10 or above has just reported a negative stage and was
\* answered with `sync`
C18_Witness ==
  /\ ev.op = "stage_reached" /\ ev.n = -3
  /\ Attached(ev.p)
  /\ StateOf(ev.p).stageReached >= 10
  /\ StateOf(ev.p).nextGrantStage >= 15
  /\ Reason(sent, ev.p) = "sync"

(* ------------------------------- C19 ----------------------------------- *)
\* the deadline callback of room r has just run and has written `match_end`,
\* with the room's scores and endAt, to the two players of the room
JustEnded(r) ==
  /\ ev = Event("deadline", 0, r)
  /\ r \in rooms
  /\ Len(heap[r].players) = 2
  /\ sent = Broadcast(heap[r].players, ws,
              [type |-> "match_end", scores |-> heap[r].scores,
               endAt |-> heap[r].endAt])

\* C19: liveness of the room lifecycle.  With time passing and due timers
\* running, every room in the rooms map whose deadline has not fired is
\* later either removed from the map or ended by its deadline callback,
\* which happens at now >= endAt, keeps the room in the map and broadcasts
\* `match_end` to both players of the room with the room's scores; and the
\* scores of a room do not change once now >= endAt, so the scores
\* broadcast are those of the instant endAt.
C19_Lifecycle ==
  /\ \A r \in 1..LiveMaxRooms :
       (r \in rooms /\ heap[r].timer = "pending")
         ~> (r \notin rooms \/ JustEnded(r))
  /\ [][ ev'.op = "deadline" =>
           \E r \in rooms :
             /\ ev'.n = r
             /\ JustEnded(r)'
             /\ now >= heap[r].endAt
             /\ heap'[r].scores = heap[r].scores
       ]_vars
  /\ [][ \A r \in DOMAIN heap \cap DOMAIN heap' :
           now >= heap[r].endAt => heap'[r].scores = heap[r].scores
       ]_vars

\* the deadline of a room of two different players, both with open sockets
\* and one of them with a point, has just fired: both were sent `match_end`
\* with that score
C19_Witness ==
  /\ \E r \in rooms :
       /\ JustEnded(r)
       /\ heap[r].players[1] # heap[r].players[2]
       /\ \A q \in PlayersOf(heap, r) :
            /\ ws[q] = "OPEN"
            /\ \E i \in MsgsTo(sent, q, "match_end") :
                 sent[i].msg.scores = heap[r].scores
       /\ \E q \in PlayersOf(heap, r) : heap[r].scores[q] = 1
  /\ Len(sent) = 2

(* ------------------------------- C20 ----------------------------------- *)
\* the 'close' event of player p's socket has been handled
Gone(p) == ws[p] = "CLOSED"

\* C20: no stale rooms or waiters.  Every room of the rooms map has exactly
\* two entries in its player list, each a player whose close has not been
\* handled; the waiting slot never holds a player whose close has been
\* handled; so when the close of every player has been handled, the rooms
\* map and the waiting slot are empty.
C20_NoStale ==
  /\ \A r \in rooms :
       /\ Len(heap[r].players) = 2
       /\ \A i \in 1..Len(heap[r].players) : ~Gone(heap[r].players[i])
  /\ waitingPlayer # 0 => ~Gone(waitingPlayer)
  /\ (\A p \in DOMAIN ws : Gone(p)) => rooms = {} /\ waitingPlayer = 0

\* the last of three players has just disconnected, after two rooms were
\* created: nothing is left
C20_Witness ==
  /\ ev.op = "close"
  /\ DOMAIN ws = {1, 2, 3}
  /\ \A p \in DOMAIN ws : Gone(p)
  /\ roomSeq = 3
  /\ rooms = {}
  /\ waitingPlayer = 0

====
